---- MODULE Spec2Model ----
(***************************************************************************)
(* MediMatch: the drug-interaction API route (POST /api/drug-interaction). *)
(* A request carries two drug names; the handler validates them, tries     *)
(* three candidate tables under two column layouts and two name orders,    *)
(* and answers with the matched record or a fixed fallback.                *)
(*                                                                         *)
(* Text is a sequence of one-character strings, so that toLowerCase, trim, *)
(* includes and ILIKE are computed character by character.                 *)
(***************************************************************************)
EXTENDS Integers, Sequences, FiniteSets, TLC

VARIABLES
    supabaseUrlSet,   \* process.env: SUPABASE_URL / NEXT_PUBLIC_SUPABASE_URL is set
    tableEnv,         \* process.env.NEXT_PUBLIC_DRUG_INTERACTIONS_TABLE
    store,            \* the Supabase tables: name -> [mode, rows]
    pc,               \* position of the handler: idle, lookup, done
    body,             \* the request body: none (not read), malformed, json
    drug1,            \* body.drug1 as received
    drug2,            \* body.drug2 as received
    normalizedDrug1,
    normalizedDrug2,
    tableIdx,         \* index of the next entry of tableCandidates
    interaction,      \* the handler's `interaction` variable
    queries,          \* the sub-queries issued to the store by this request
    errorLog,         \* console.error calls made by this request
    response,         \* the NextResponse returned
    prev,             \* history: the previous request and its response
    uiDrug1,          \* page.tsx: the state drug1 of Home (first input)
    uiDrug2,          \* page.tsx: the state drug2 of Home (second input)
    loading,          \* page.tsx: the state loading
    result,           \* page.tsx: the state result (Null or a DrugInteraction)
    error,            \* page.tsx: the state error (Null or a message)
    showResults,      \* page.tsx: the state showResults (the modal is open)
    inflight          \* page.tsx: the checkInteraction calls awaiting a promise

\* The state of the API route and of its deployment.
routeVars == <<supabaseUrlSet, tableEnv, store, pc, body, drug1, drug2,
               normalizedDrug1, normalizedDrug2, tableIdx, interaction, queries,
               errorLog, response, prev>>

\* The state of the page.
pageVars == <<uiDrug1, uiDrug2, loading, result, error, showResults, inflight>>

vars == <<supabaseUrlSet, tableEnv, store, pc, body, drug1, drug2, normalizedDrug1,
          normalizedDrug2, tableIdx, interaction, queries, errorLog, response, prev,
          pageVars>>

----------------------------------------------------------------------------
(* JavaScript values: undefined, null, a number, a string of characters.   *)

Undefined == [t |-> "undefined", s |-> <<>>]
Null == [t |-> "null", s |-> <<>>]
Num == [t |-> "number", s |-> <<>>]
Str(chars) == [t |-> "string", s |-> chars]

\* JavaScript truthiness: undefined, null and "" are falsy; the number modelled
\* is non-zero.
Truthy(v) == \/ v.t = "number"
             \/ v.t = "string" /\ v.s # <<>>

UpperCase == <<"A","B","C","D","E","F","G","H","I","J","K","L","M",
               "N","O","P","Q","R","S","T","U","V","W","X","Y","Z">>
LowerCase == <<"a","b","c","d","e","f","g","h","i","j","k","l","m",
               "n","o","p","q","r","s","t","u","v","w","x","y","z">>

toLowerChar(c) ==
    IF \E k \in DOMAIN UpperCase : UpperCase[k] = c
    THEN LowerCase[CHOOSE k \in DOMAIN UpperCase : UpperCase[k] = c]
    ELSE c

\* String.prototype.toLowerCase
toLowerCase(s) == [i \in DOMAIN s |-> toLowerChar(s[i])]

WhiteSpace == {" ", "\t", "\n"}

\* String.prototype.trim
trim(s) ==
    LET keep == {i \in DOMAIN s : s[i] \notin WhiteSpace}
    IN  IF keep = {} THEN <<>>
        ELSE LET lo == CHOOSE i \in keep : \A j \in keep : i <= j
                 hi == CHOOSE i \in keep : \A j \in keep : j <= i
             IN  SubSeq(s, lo, hi)

\* String.prototype.includes
includes(s, w) ==
    \E i \in 0..(Len(s) - Len(w)) : SubSeq(s, i + 1, i + Len(w)) = w

\* normalizeDrugName without its toLowerCase().
normalizeDrugName_NoLower(drug) == trim(drug)

normalizeDrugName(drug) == trim(toLowerCase(drug))

Major == <<"M","a","j","o","r">>
Moderate == <<"M","o","d","e","r","a","t","e">>
Minor == <<"M","i","n","o","r">>
None == <<"N","o","n","e">>
Severities == {Major, Moderate, Minor, None}

\* normalizeSeverity testing the keywords in the order minor, moderate, major.
normalizeSeverity_MinorFirst(sev) ==
    LET s == toLowerCase(IF Truthy(sev) THEN sev.s ELSE <<>>)
    IN  IF includes(s, <<"m","i","n","o","r">>) THEN Minor
        ELSE IF includes(s, <<"m","o","d","e","r","a","t","e">>) THEN Moderate
        ELSE IF includes(s, <<"m","a","j","o","r">>) THEN Major
        ELSE None

normalizeSeverity(sev) ==
    LET s == toLowerCase(IF Truthy(sev) THEN sev.s ELSE <<>>)
    IN  IF includes(s, <<"m","a","j","o","r">>) THEN Major
        ELSE IF includes(s, <<"m","o","d","e","r","a","t","e">>) THEN Moderate
        ELSE IF includes(s, <<"m","i","n","o","r">>) THEN Minor
        ELSE None

----------------------------------------------------------------------------
(* The store: Supabase tables queried through PostgREST.                   *)

\* LIKE: the case-sensitive match, what .like() asks for.
RECURSIVE like(_, _)
like(text, pattern) ==
    IF pattern = <<>> THEN text = <<>>
    ELSE IF Head(pattern) = "%"
         THEN \/ like(text, Tail(pattern))
              \/ text # <<>> /\ like(Tail(text), pattern)
         ELSE /\ text # <<>>
              /\ \/ Head(pattern) = "_"
                 \/ Head(text) = Head(pattern)
              /\ like(Tail(text), Tail(pattern))

\* PostgreSQL ILIKE: case-insensitive LIKE; % matches any run of characters,
\* _ any one character.
RECURSIVE ilike(_, _)
ilike(text, pattern) ==
    IF pattern = <<>> THEN text = <<>>
    ELSE IF Head(pattern) = "%"
         THEN \/ ilike(text, Tail(pattern))
              \/ text # <<>> /\ ilike(Tail(text), pattern)
         ELSE /\ text # <<>>
              /\ \/ Head(pattern) = "_"
                 \/ toLowerChar(Head(text)) = toLowerChar(Head(pattern))
              /\ ilike(Tail(text), Tail(pattern))

\* A column filter .ilike(column, pattern): a NULL column never matches.
ColumnLike(value, pattern) == value.t = "string" /\ ilike(value.s, pattern)

\* A table row with the legacy columns (drug1, drug2, severity, description,
\* interaction) and the DDInter-like columns; a row of one layout holds NULL in
\* the other layout's columns.
RowA(n1, n2, sev) ==
    [drug1 |-> Str(n1), drug2 |-> Str(n2), severity |-> sev,
     description |-> Str(<<"row description">>), interaction |-> Null,
     primary_drug_name |-> Null, secondary_drug_name |-> Null,
     interaction_severity |-> Null]
RowB(n1, n2, sev) ==
    [drug1 |-> Null, drug2 |-> Null, severity |-> Null,
     description |-> Null, interaction |-> Null,
     primary_drug_name |-> Str(n1), secondary_drug_name |-> Str(n2),
     interaction_severity |-> sev]

\* How a table answers: ok; errA / errB: the legacy / the DDInter-like columns
\* do not exist, so a select naming them returns an error value; errAll: the
\* table is missing or unreadable; throw: the call itself rejects.
TableModes == {"ok", "errA", "errB", "errAll", "throw"}

Fails(mode, variant) ==
    \/ mode = "errAll"
    \/ mode = "errA" /\ variant = "A"
    \/ mode = "errB" /\ variant = "B"

Matching(rows, variant, p1, p2) ==
    IF variant = "A"
    THEN {r \in rows : ColumnLike(r.drug1, p1) /\ ColumnLike(r.drug2, p2)}
    ELSE {r \in rows : ColumnLike(r.primary_drug_name, p1)
                        /\ ColumnLike(r.secondary_drug_name, p2)}

\* The query with its second .ilike() filter left out.
Select_FirstColumnOnly(tableName, variant, p1, p2) ==
    LET tbl == store[tableName]
        m == IF variant = "A"
             THEN {r \in tbl.rows : r.drug1.t = "string" /\ ilike(r.drug1.s, p1)}
             ELSE {r \in tbl.rows : r.primary_drug_name.t = "string"
                                     /\ ilike(r.primary_drug_name.s, p1)}
    IN  IF Fails(tbl.mode, variant) THEN {[error |-> TRUE, data |-> <<>>]}
        ELSE IF m = {} THEN {[error |-> FALSE, data |-> <<>>]}
        ELSE {[error |-> FALSE, data |-> <<r>>] : r \in m}

\* supabase.from(t).select(..).ilike(.., p1).ilike(.., p2).limit(1): every
\* {data, error} the call can resolve to. No ORDER BY is given, so which of
\* several matching rows comes back is the store's choice.
Select(tableName, variant, p1, p2) ==
    LET tbl == store[tableName]
        m == Matching(tbl.rows, variant, p1, p2)
    IN  IF Fails(tbl.mode, variant) THEN {[error |-> TRUE, data |-> <<>>]}
        ELSE IF m = {} THEN {[error |-> FALSE, data |-> <<>>]}
        ELSE {[error |-> FALSE, data |-> <<r>>] : r \in m}

----------------------------------------------------------------------------
(* The handler.                                                            *)

\* The table override put in front of the three default names.
tableCandidates_Prepended ==
    IF Truthy(tableEnv)
    THEN << tableEnv.s, <<"drug_interactions">>, <<"DrugInteraction">>,
            <<"druginteraction">> >>
    ELSE << <<"drug_interactions">>, <<"DrugInteraction">>, <<"druginteraction">> >>

\* const tableCandidates = [process.env... || "drug_interactions", ...]
tableCandidates ==
    << IF Truthy(tableEnv) THEN tableEnv.s ELSE <<"drug_interactions">>,
       <<"DrugInteraction">>,
       <<"druginteraction">> >>

\* !res.error && res.data && res.data.length > 0
Hit(res) == ~res.error /\ Len(res.data) > 0

\* return firstA.data[0] as DrugInteraction: the selected columns, as stored.
AdoptA(row) ==
    [drug1 |-> row.drug1, drug2 |-> row.drug2, severity |-> row.severity,
     description |-> row.description, interaction |-> row.interaction]

\* The object built from a DDInter-like row with its two names exchanged.
AdoptB_SwappedNames(row) ==
    [drug1 |-> row.secondary_drug_name, drug2 |-> row.primary_drug_name,
     severity |-> Str(normalizeSeverity(row.interaction_severity)),
     description |-> Undefined, interaction |-> Undefined]

\* The object built from a DDInter-like row with the severity text as stored.
AdoptB_RawSeverity(row) ==
    [drug1 |-> row.primary_drug_name, drug2 |-> row.secondary_drug_name,
     severity |-> row.interaction_severity,
     description |-> Undefined, interaction |-> Undefined]

\* The object built from a DDInter-like row.
AdoptB(row) ==
    [drug1 |-> row.primary_drug_name, drug2 |-> row.secondary_drug_name,
     severity |-> Str(normalizeSeverity(row.interaction_severity)),
     description |-> Undefined, interaction |-> Undefined]

\* One entry of the request's query log.
Issued(tableName, variant, order, res) ==
    [table |-> tableName, variant |-> variant, order |-> order,
     result |-> IF res.error THEN "error"
                ELSE IF Len(res.data) > 0 THEN "row" ELSE "empty"]

\* findInteractionInTable giving the table up, with a log entry, at the first
\* sub-query that returns an error value.
findInteractionInTable_StopOnError(tableName) ==
    LET like1 == <<"%">> \o normalizedDrug1 \o <<"%">>
        like2 == <<"%">> \o normalizedDrug2 \o <<"%">>
        Found(ret, issued) ==
            [ret |-> ret, issued |-> issued, logged |-> <<>>, threw |-> FALSE]
        NotFound(issued) ==
            LET errors == {i \in DOMAIN issued : issued[i].result = "error"}
            IN  [ret |-> Null, issued |-> issued,
                 logged |-> IF errors # {}
                            THEN <<[table |-> tableName, errors |-> Cardinality(errors)]>>
                            ELSE <<>>,
                 threw |-> FALSE]
    IN  IF store[tableName].mode = "throw"
        THEN {[ret |-> Null,
               issued |-> <<[table |-> tableName, variant |-> "A",
                             order |-> "first", result |-> "throw"]>>,
               logged |-> <<>>, threw |-> TRUE]}
        ELSE UNION {
          LET qA1 == <<Issued(tableName, "A", "first", firstA)>>
          IN  IF Hit(firstA) THEN {Found(AdoptA(firstA.data[1]), qA1)}
              ELSE IF firstA.error THEN {NotFound(qA1)}
              ELSE UNION {
                LET qB1 == qA1 \o <<Issued(tableName, "B", "first", firstB)>>
                IN  IF Hit(firstB) THEN {Found(AdoptB(firstB.data[1]), qB1)}
                    ELSE IF firstB.error THEN {NotFound(qB1)}
                    ELSE UNION {
                      LET qA2 == qB1 \o <<Issued(tableName, "A", "second", secondA)>>
                      IN  IF Hit(secondA) THEN {Found(AdoptA(secondA.data[1]), qA2)}
                          ELSE {
                            LET qB2 == qA2 \o <<Issued(tableName, "B", "second", secondB)>>
                            IN  IF Hit(secondB)
                                THEN Found(AdoptB(secondB.data[1]), qB2)
                                ELSE NotFound(qB2)
                            : secondB \in Select(tableName, "B", like2, like1)}
                      : secondA \in Select(tableName, "A", like2, like1)}
                : firstB \in Select(tableName, "B", like1, like2)}
          : firstA \in Select(tableName, "A", like1, like2)}

\* Every way one call findInteractionInTable(tableName) can end: what it
\* returns (ret, Null for null), the sub-queries it issued, what it logged with
\* console.error, and whether it ended by a thrown exception.
findInteractionInTable(tableName) ==
    LET like1 == <<"%">> \o normalizedDrug1 \o <<"%">>
        like2 == <<"%">> \o normalizedDrug2 \o <<"%">>
        Found(ret, issued) ==
            [ret |-> ret, issued |-> issued, logged |-> <<>>, threw |-> FALSE]
        NotFound(issued) ==
            LET errors == {i \in DOMAIN issued : issued[i].result = "error"}
            IN  [ret |-> Null, issued |-> issued,
                 logged |-> IF errors # {}
                            THEN <<[table |-> tableName, errors |-> Cardinality(errors)]>>
                            ELSE <<>>,
                 threw |-> FALSE]
    IN  IF store[tableName].mode = "throw"
        THEN {[ret |-> Null,
               issued |-> <<[table |-> tableName, variant |-> "A",
                             order |-> "first", result |-> "throw"]>>,
               logged |-> <<>>, threw |-> TRUE]}
        ELSE UNION {
          LET qA1 == <<Issued(tableName, "A", "first", firstA)>>
          IN  IF Hit(firstA) THEN {Found(AdoptA(firstA.data[1]), qA1)}
              ELSE UNION {
                LET qB1 == qA1 \o <<Issued(tableName, "B", "first", firstB)>>
                IN  IF Hit(firstB) THEN {Found(AdoptB(firstB.data[1]), qB1)}
                    ELSE UNION {
                      LET qA2 == qB1 \o <<Issued(tableName, "A", "second", secondA)>>
                      IN  IF Hit(secondA) THEN {Found(AdoptA(secondA.data[1]), qA2)}
                          ELSE {
                            LET qB2 == qA2 \o <<Issued(tableName, "B", "second", secondB)>>
                            IN  IF Hit(secondB)
                                THEN Found(AdoptB(secondB.data[1]), qB2)
                                ELSE NotFound(qB2)
                            : secondB \in Select(tableName, "B", like2, like1)}
                      : secondA \in Select(tableName, "A", like2, like1)}
                : firstB \in Select(tableName, "B", like1, like2)}
          : firstA \in Select(tableName, "A", like1, like2)}

\* The loop body without its try/catch: a thrown exception reaches the outer
\* catch.
LoopStep_Rethrow(current, o) ==
    IF o.threw
    THEN [interaction |-> current, break |-> FALSE, rethrown |-> TRUE]
    ELSE [interaction |-> o.ret, break |-> o.ret # Null, rethrown |-> FALSE]

\* The loop body with catch (e) { break }.
LoopStep_BreakOnThrow(current, o) ==
    IF o.threw
    THEN [interaction |-> current, break |-> TRUE, rethrown |-> FALSE]
    ELSE [interaction |-> o.ret, break |-> o.ret # Null, rethrown |-> FALSE]

\* The loop body without its if (interaction) break.
LoopStep_NoBreak(current, o) ==
    IF o.threw
    THEN [interaction |-> current, break |-> FALSE, rethrown |-> FALSE]
    ELSE [interaction |-> o.ret, break |-> FALSE, rethrown |-> FALSE]

\* The loop body going through every table and keeping the first record found.
LoopStep_KeepFirst(current, o) ==
    IF o.threw \/ current # Null
    THEN [interaction |-> current, break |-> FALSE, rethrown |-> FALSE]
    ELSE [interaction |-> o.ret, break |-> FALSE, rethrown |-> FALSE]

\* The loop body: try { interaction = await find(..); if (interaction) break }
\* catch (e) { continue }
LoopStep(current, o) ==
    IF o.threw
    THEN [interaction |-> current, break |-> FALSE, rethrown |-> FALSE]
    ELSE [interaction |-> o.ret, break |-> o.ret # Null, rethrown |-> FALSE]

NoResponse ==
    [status |-> 0, error |-> Undefined, drug1 |-> Undefined, drug2 |-> Undefined,
     severity |-> Undefined, description |-> Undefined, interaction |-> Undefined]

ValidationError ==
    [NoResponse EXCEPT !.status = 400,
                       !.error = Str(<<"Both drug names are required">>)]

\* The 500 response carrying the message of the caught error.
InternalError_WithDetail ==
    [NoResponse EXCEPT !.status = 500,
                       !.error = Str(<<"drug.toLowerCase is not a function">>)]

InternalError ==
    [NoResponse EXCEPT !.status = 500, !.error = Str(<<"Internal server error">>)]

FallbackDescription ==
    Str(<<"No known significant interactions found between these medications in our database.">>)
FallbackInteraction ==
    Str(<<"Based on current medical data, these medications do not have significant documented interactions. However, always consult with your healthcare provider as individual factors may affect medication interactions.">>)

\* The match response echoing the record's names instead of the caller's.
MatchResponse_RecordNames(d1, d2, found) ==
    [NoResponse EXCEPT !.status = 200,
                       !.drug1 = found.drug1,
                       !.drug2 = found.drug2,
                       !.severity = found.severity,
                       !.description = found.description,
                       !.interaction = found.interaction]

MatchResponse(d1, d2, found) ==
    [NoResponse EXCEPT !.status = 200,
                       !.drug1 = Str(trim(d1.s)),
                       !.drug2 = Str(trim(d2.s)),
                       !.severity = found.severity,
                       !.description = found.description,
                       !.interaction = found.interaction]

\* The fallback echoing the normalized names.
FallbackResponse_Normalized(d1, d2) ==
    [NoResponse EXCEPT !.status = 200,
                       !.drug1 = Str(normalizeDrugName(d1.s)),
                       !.drug2 = Str(normalizeDrugName(d2.s)),
                       !.severity = Str(None),
                       !.description = FallbackDescription,
                       !.interaction = FallbackInteraction]

FallbackResponse(d1, d2) ==
    [NoResponse EXCEPT !.status = 200,
                       !.drug1 = Str(trim(d1.s)),
                       !.drug2 = Str(trim(d2.s)),
                       !.severity = Str(None),
                       !.description = FallbackDescription,
                       !.interaction = FallbackInteraction]

\* if (!drug1 || !drug2) return 400
Rejected(d1, d2) == ~Truthy(d1) \/ ~Truthy(d2)

----------------------------------------------------------------------------
(* Inputs and bounds.                                                      *)

\* The deployments considered are those that differ from the plain one (no
\* table override, every table answering, no rows) in at most MaxWeight ways:
\* each stored row, each table that does not answer "ok" and a set table
\* override count one.
MaxWeight == 2

\* Values a request body can carry for drug1 / drug2.
DrugValues ==
    {Undefined, Num, Str(<<>>), Str(<<" ">>),
     Str(<<"a">>), Str(<<" ", "A">>), Str(<<"b">>)}

\* Names and severity texts found in stored rows.
RecordNames == {<<"A">>, <<"A", "b">>}
RecordSeverities ==
    {Str(Minor), Str(<<"M","a","j","o","r"," ","r","i","s","k">>)}

EnvValues == {Undefined, Str(<<>>), Str(<<"my_table">>)}

TableNames ==
    {<<"my_table">>, <<"drug_interactions">>, <<"DrugInteraction">>, <<"druginteraction">>}

RowsA ==
    {RowA(n1, n2, sev) : n1 \in RecordNames, n2 \in RecordNames, sev \in RecordSeverities}
RowsB ==
    {RowB(n1, n2, sev) : n1 \in RecordNames, n2 \in RecordNames, sev \in RecordSeverities}

\* The rows a table in a given mode can hold and show: a table without a
\* layout's columns holds no row of that layout, and the content of a table
\* that cannot be read at all is immaterial.
RowsIn(mode) ==
    CASE mode = "ok" -> RowsA \cup RowsB
      [] mode = "errA" -> RowsB
      [] mode = "errB" -> RowsA
      [] OTHER -> {}

\* The tables the handler can query under a given table override.
Queried(env) ==
    {(IF Truthy(env) THEN env.s ELSE <<"drug_interactions">>),
     <<"DrugInteraction">>, <<"druginteraction">>}

FaultyTables(env, modes) == {n \in Queried(env) : modes[n] # "ok"}

\* The ways the tables can answer, for a given table override and at most
\* `budget` faulty tables: only a table the handler can query misbehaves.
ModeChoices(env, budget) ==
    {m \in [TableNames -> TableModes] :
        /\ \A n \in TableNames \ Queried(env) : m[n] = "ok"
        /\ Cardinality(FaultyTables(env, m)) <= budget}

\* A slot holds nothing, or one row placed in one table that can show it.
NoRow == <<<<"">>, Null>>
SlotChoices(env, modes) ==
    {NoRow} \cup UNION {{<<n, r>> : r \in RowsIn(modes[n])} : n \in Queried(env)}

\* The store with the given modes and the rows of the slots.
BuildStore(modes, slots) ==
    [n \in TableNames |->
        [mode |-> modes[n],
         rows |-> {slots[i][2] : i \in {k \in DOMAIN slots : slots[k][1] = n}}]]

----------------------------------------------------------------------------
(* The state machine.                                                      *)

NoRequest ==
    [body |-> "none", drug1 |-> Undefined, drug2 |-> Undefined,
     normalizedDrug1 |-> <<>>, normalizedDrug2 |-> <<>>, queries |-> <<>>,
     response |-> NoResponse]

\* Home as first rendered: the useState initial values, no call running.
InitPage ==
    /\ uiDrug1 = <<>>
    /\ uiDrug2 = <<>>
    /\ loading = FALSE
    /\ result = Null
    /\ error = Null
    /\ showResults = FALSE
    /\ inflight = <<>>

\* A handler activation before it has done anything.
InitHandler ==
    /\ pc = "idle"
    /\ body = "none"
    /\ drug1 = Undefined
    /\ drug2 = Undefined
    /\ normalizedDrug1 = <<>>
    /\ normalizedDrug2 = <<>>
    /\ tableIdx = 1
    /\ interaction = Null
    /\ queries = <<>>
    /\ errorLog = <<>>
    /\ response = NoResponse
    /\ prev = NoRequest

Init ==
    /\ supabaseUrlSet \in BOOLEAN
    /\ tableEnv \in EnvValues
    /\ LET budget == MaxWeight - (IF tableEnv = Undefined THEN 0 ELSE 1)
       IN  \E modes \in ModeChoices(tableEnv, budget) :
             \E slots \in [1..(budget - Cardinality(FaultyTables(tableEnv, modes)))
                              -> SlotChoices(tableEnv, modes)] :
               store = BuildStore(modes, slots)
    /\ InitHandler
    /\ InitPage

\* The outer catch: console.error(..); return 500.
Fail500 ==
    /\ pc' = "done"
    /\ response' = InternalError

\* POST up to the start of the table loop for a body {drug1: d1, drug2: d2}:
\* validate and normalise the names.
Receive(d1, d2) ==
    /\ body' = "json"
    /\ drug1' = d1
    /\ drug2' = d2
    /\ IF Rejected(d1, d2)
       THEN /\ pc' = "done"
            /\ response' = ValidationError
            /\ UNCHANGED <<normalizedDrug1, normalizedDrug2>>
       ELSE IF d1.t # "string" \/ d2.t # "string"
       THEN \* drug.toLowerCase is not a function
            /\ Fail500
            /\ UNCHANGED <<normalizedDrug1, normalizedDrug2>>
       ELSE /\ normalizedDrug1' = normalizeDrugName(d1.s)
            /\ normalizedDrug2' = normalizeDrugName(d2.s)
            /\ pc' = "lookup"
            /\ UNCHANGED response

\* POST up to the start of the table loop: construct the client, read the
\* body, validate and normalise the names.
Begin ==
    /\ pc = "idle"
    /\ UNCHANGED pageVars
    /\ UNCHANGED <<supabaseUrlSet, tableEnv, store, tableIdx, interaction,
                   queries, errorLog, prev>>
    /\ \/ \* createClient throws without a URL
          /\ ~supabaseUrlSet
          /\ Fail500
          /\ UNCHANGED <<body, drug1, drug2, normalizedDrug1, normalizedDrug2>>
       \/ \* request.json() rejects: the body is not JSON
          /\ supabaseUrlSet
          /\ body' = "malformed"
          /\ Fail500
          /\ UNCHANGED <<drug1, drug2, normalizedDrug1, normalizedDrug2>>
       \/ /\ supabaseUrlSet
          /\ \E d1 \in DrugValues, d2 \in DrugValues : Receive(d1, d2)

\* One iteration of the loop over tableCandidates and, when the loop ends with
\* it, the response.
TryTable ==
    /\ pc = "lookup"
    /\ UNCHANGED pageVars
    /\ UNCHANGED <<supabaseUrlSet, tableEnv, store, body, drug1, drug2,
                   normalizedDrug1, normalizedDrug2, prev>>
    /\ \E o \in findInteractionInTable(tableCandidates[tableIdx]) :
         LET step == LoopStep(interaction, o)
         IN  /\ queries' = queries \o o.issued
             /\ errorLog' = errorLog \o o.logged
             /\ interaction' = step.interaction
             /\ IF step.rethrown
                THEN Fail500 /\ UNCHANGED tableIdx
                ELSE IF step.break \/ tableIdx = Len(tableCandidates)
                THEN /\ pc' = "done"
                     /\ response' = IF step.interaction # Null
                                    THEN MatchResponse(drug1, drug2, step.interaction)
                                    ELSE FallbackResponse(drug1, drug2)
                     /\ UNCHANGED tableIdx
                ELSE /\ pc' = "lookup"
                     /\ tableIdx' = tableIdx + 1
                     /\ UNCHANGED response

\* A fresh handler activation: nothing of a request outlives it.
Fresh ==
    /\ pc' = "idle"
    /\ body' = "none"
    /\ drug1' = Undefined
    /\ drug2' = Undefined
    /\ normalizedDrug1' = <<>>
    /\ normalizedDrug2' = <<>>
    /\ tableIdx' = 1
    /\ interaction' = Null
    /\ queries' = <<>>
    /\ errorLog' = <<>>
    /\ response' = NoResponse

\* The response has been returned; the next request starts afresh.
Finish ==
    /\ pc = "done"
    /\ Fresh
    /\ UNCHANGED pageVars
    /\ UNCHANGED <<supabaseUrlSet, tableEnv, store, prev>>

Next == Begin \/ TryTable \/ Finish

Spec == Init /\ [][Next]_vars

----------------------------------------------------------------------------
(* Two requests in a row against the same store: the first is free, each   *)
(* later one carries the previous names again, in the same or the swapped  *)
(* order, possibly written with other case or surrounding whitespace.      *)

\* Finish, remembering the request, the names searched for, the sub-queries
\* issued and the response.
FinishRecord ==
    /\ pc = "done"
    /\ Fresh
    /\ prev' = [body |-> body, drug1 |-> drug1, drug2 |-> drug2,
                normalizedDrug1 |-> normalizedDrug1,
                normalizedDrug2 |-> normalizedDrug2,
                queries |-> queries, response |-> response]
    /\ UNCHANGED pageVars
    /\ UNCHANGED <<supabaseUrlSet, tableEnv, store>>

BeginFirst == prev = NoRequest /\ Begin

\* Two values a client may send for the same name: the same value, or two
\* texts that differ only in letter case and surrounding whitespace.
SameName(d, e) ==
    \/ d = e
    \/ d.t = "string" /\ e.t = "string"
       /\ toLowerCase(trim(d.s)) = toLowerCase(trim(e.s))

BeginAgain ==
    /\ pc = "idle"
    /\ prev.body = "json"
    /\ UNCHANGED pageVars
    /\ UNCHANGED <<supabaseUrlSet, tableEnv, store, tableIdx, interaction,
                   queries, errorLog, prev>>
    /\ \E d1 \in DrugValues, d2 \in DrugValues :
         /\ \/ SameName(d1, prev.drug1) /\ SameName(d2, prev.drug2)
            \/ SameName(d1, prev.drug2) /\ SameName(d2, prev.drug1)
         /\ Receive(d1, d2)

NextPair == BeginFirst \/ BeginAgain \/ TryTable \/ FinishRecord

SpecPair == Init /\ [][NextPair]_vars

----------------------------------------------------------------------------
(* Severity texts: a store whose one DDInter-like row carries a free-form  *)
(* interaction_severity, put together from at most MaxFragments fragments. *)

MaxFragments == 3

Fragments ==
    { <<"m","a","j","o","r">>, <<"M","I","N","O","R">>,
      <<"M","o","d","e","r","a","t","e">>, <<"m","a","j">>, <<"o","r">>,
      <<" ">>, <<"u","n","k","n","o","w","n">> }

RECURSIVE Flatten(_)
Flatten(ws) == IF ws = <<>> THEN <<>> ELSE Head(ws) \o Flatten(Tail(ws))

SeverityInputs ==
    {Null} \cup
    {Str(Flatten(ws)) : ws \in UNION {[1..k -> Fragments] : k \in 0..MaxFragments}}

InitSeverity ==
    /\ supabaseUrlSet = TRUE
    /\ tableEnv = Undefined
    /\ \E sev \in SeverityInputs :
         store = [n \in TableNames |->
                    [mode |-> "ok",
                     rows |-> IF n = <<"drug_interactions">>
                              THEN {RowB(<<"A">>, <<"A", "b">>, sev)} ELSE {}]]
    /\ InitHandler
    /\ InitPage

SpecSeverity == InitSeverity /\ [][Next]_vars

----------------------------------------------------------------------------
(* The page (src/app/page.tsx): two text inputs, the check button, the     *)
(* results modal and checkInteraction. checkInteraction awaits fetch and   *)
(* then response.json(); while it waits, other events of the page run.     *)
(* State updates made in one run of a handler or of a continuation are     *)
(* applied together.                                                       *)

\* What the user types into an input.
InputTexts == {<<>>, <<" ">>, <<"a">>, <<" ", "b">>}

EnterBothNames == Str(<<"Please enter both drug names">>)
CheckFailed ==
    Str(<<"An error occurred while checking drug interactions. Please try again.">>)

\* The button disabled for blank inputs only.
ButtonDisabled_IgnoresLoading == trim(uiDrug1) = <<>> \/ trim(uiDrug2) = <<>>

\* disabled={loading || !drug1.trim() || !drug2.trim()}
ButtonDisabled == loading \/ trim(uiDrug1) = <<>> \/ trim(uiDrug2) = <<>>

\* What the route can answer to the body {drug1: d1, drug2: d2}.
RouteAnswers(d1, d2) ==
    IF Rejected(d1, d2)
    THEN {ValidationError, InternalError}
    ELSE {InternalError, FallbackResponse(d1, d2)} \cup
         {MatchResponse(d1, d2, AdoptB(RowB(<<"A">>, <<"A", "b">>, sev))) :
            sev \in RecordSeverities}

\* response.ok
Ok(resp) == resp.status = 200

\* await response.json() of a DrugInteraction response.
JsonBody(resp) ==
    [drug1 |-> resp.drug1, drug2 |-> resp.drug2, severity |-> resp.severity,
     description |-> resp.description, interaction |-> resp.interaction]

\* The calls in flight without the one at position k.
Without(k) == SubSeq(inflight, 1, k - 1) \o SubSeq(inflight, k + 1, Len(inflight))

\* onChange={(e) => setDrug1(e.target.value)}
EditDrug1 ==
    /\ \E text \in InputTexts : uiDrug1' = text
    /\ UNCHANGED <<uiDrug2, loading, result, error, showResults, inflight>>
    /\ UNCHANGED routeVars

\* onChange={(e) => setDrug2(e.target.value)}
EditDrug2 ==
    /\ \E text \in InputTexts : uiDrug2' = text
    /\ UNCHANGED <<uiDrug1, loading, result, error, showResults, inflight>>
    /\ UNCHANGED routeVars

\* checkInteraction up to its first await: the input check, the three state
\* updates and the fetch call.
checkInteraction ==
    /\ IF trim(uiDrug1) = <<>> \/ trim(uiDrug2) = <<>>
       THEN /\ error' = EnterBothNames
            /\ UNCHANGED <<loading, result, inflight>>
       ELSE /\ loading' = TRUE
            /\ error' = Null
            /\ result' = Null
            /\ inflight' = Append(inflight,
                                  [pc |-> "fetch",
                                   drug1 |-> Str(trim(uiDrug1)),
                                   drug2 |-> Str(trim(uiDrug2)),
                                   response |-> NoResponse])
    /\ UNCHANGED <<uiDrug1, uiDrug2, showResults>>
    /\ UNCHANGED routeVars

\* A click on the check button, which takes clicks only while enabled.
Click == ~ButtonDisabled /\ checkInteraction

\* The catch block without the finally block after it.
CallFails_NoFinally(k) ==
    /\ error' = CheckFailed
    /\ inflight' = Without(k)
    /\ UNCHANGED <<uiDrug1, uiDrug2, loading, result, showResults>>
    /\ UNCHANGED routeVars

\* catch (err) { setError(..) } finally { setLoading(false) }
CallFails(k) ==
    /\ error' = CheckFailed
    /\ loading' = FALSE
    /\ inflight' = Without(k)
    /\ UNCHANGED <<uiDrug1, uiDrug2, result, showResults>>
    /\ UNCHANGED routeVars

\* The fetch of a call settles: it rejects, or resolves to a response that is
\* not ok (both end in the catch block), or resolves to an ok response, whose
\* body the call then awaits.
FetchSettles ==
    \E k \in DOMAIN inflight :
        /\ inflight[k].pc = "fetch"
        /\ \/ CallFails(k)
           \/ \E resp \in RouteAnswers(inflight[k].drug1, inflight[k].drug2) :
                 IF ~Ok(resp)
                 THEN CallFails(k)
                 ELSE /\ inflight' = [inflight EXCEPT ![k].pc = "json",
                                                       ![k].response = resp]
                      /\ UNCHANGED <<uiDrug1, uiDrug2, loading, result, error,
                                     showResults>>
                      /\ UNCHANGED routeVars

\* response.json() of a call settles: it rejects, or resolves to the data, which
\* is shown: setResult(data); setShowResults(true); finally setLoading(false).
JsonSettles ==
    \E k \in DOMAIN inflight :
        /\ inflight[k].pc = "json"
        /\ \/ CallFails(k)
           \/ /\ result' = JsonBody(inflight[k].response)
              /\ showResults' = TRUE
              /\ loading' = FALSE
              /\ inflight' = Without(k)
              /\ UNCHANGED <<uiDrug1, uiDrug2, error>>
              /\ UNCHANGED routeVars

\* onClick={() => setShowResults(false)} of the modal's overlay and button.
CloseModal ==
    /\ showResults
    /\ showResults' = FALSE
    /\ UNCHANGED <<uiDrug1, uiDrug2, loading, result, error, inflight>>
    /\ UNCHANGED routeVars

NextPage == EditDrug1 \/ EditDrug2 \/ Click \/ FetchSettles \/ JsonSettles \/ CloseModal

\* The page alone, in front of a route that is not looked into.
InitHome ==
    /\ supabaseUrlSet = TRUE
    /\ tableEnv = Undefined
    /\ store = [n \in TableNames |-> [mode |-> "ok", rows |-> {}]]
    /\ InitHandler
    /\ InitPage

\* Every promise a call awaits settles: a call that can go on does go on.
SpecPage ==
    /\ InitHome
    /\ [][NextPage]_vars
    /\ WF_vars(FetchSettles)
    /\ WF_vars(JsonSettles)

----------------------------------------------------------------------------
(* Properties.                                                             *)

Last(s) == s[Len(s)]

Answered == pc = "done" /\ response.status = 200
Matched == Answered /\ interaction # Null
IsFallback(resp) == resp.status = 200 /\ resp.description = FallbackDescription
ClosedSet == {Str(Major), Str(Moderate), Str(Minor), Str(None)}

\* r is s without its leading and trailing whitespace.
IsTrimOf(r, s) ==
    \E i \in 1..(Len(s) + 1), j \in 0..Len(s) :
        /\ r = SubSeq(s, i, j)
        /\ \A k \in 1..(i - 1) : s[k] \in WhiteSpace
        /\ \A k \in (j + 1)..Len(s) : s[k] \in WhiteSpace
        /\ r = <<>> \/ (r[1] \notin WhiteSpace /\ r[Len(r)] \notin WhiteSpace)

\* C1: every DrugInteraction response, matched or fallback, carries a severity
\* that is one of Major, Moderate, Minor, None.
C1_SeverityInClosedSet == Answered => response.severity \in ClosedSet

\* C2: when the matching sub-query is a legacy-column (Shape A) query, the
\* severity returned is normalizeSeverity of the matched record's severity.
C2_ShapeASeverityNormalized ==
    (Matched /\ Last(queries).variant = "A")
        => response.severity = Str(normalizeSeverity(interaction.severity))

\* c is the letter l, in either case.
SameLetter(c, l) ==
    c = l \/ \E k \in DOMAIN LowerCase : LowerCase[k] = l /\ UpperCase[k] = c

\* text holds the lower-case word w somewhere, letter case ignored.
HoldsWord(text, w) ==
    \E i \in 1..Len(text) :
        /\ i + Len(w) - 1 <= Len(text)
        /\ \A k \in 1..Len(w) : SameLetter(text[i + k - 1], w[k])

\* The free-form severity of the one row of the severity store ("" if NULL).
StoredSeverityText ==
    LET row == CHOOSE r \in store[<<"drug_interactions">>].rows : TRUE
    IN  IF row.interaction_severity.t = "string"
        THEN row.interaction_severity.s ELSE <<>>

\* C3: normalizeSeverity yields Major if the text holds "major" in any letter
\* case, else Moderate if it holds "moderate", else Minor if it holds "minor",
\* else None; it yields a value for every text, absent and empty included.
C3_NormalizeSeverityPriority ==
    Matched =>
        response.severity = Str(
            IF HoldsWord(StoredSeverityText, <<"m","a","j","o","r">>) THEN Major
            ELSE IF HoldsWord(StoredSeverityText, <<"m","o","d","e","r","a","t","e">>)
                 THEN Moderate
            ELSE IF HoldsWord(StoredSeverityText, <<"m","i","n","o","r">>) THEN Minor
            ELSE None)

\* A text holding both "major" and "minor" has been classified.
C3_Witness ==
    /\ Matched
    /\ HoldsWord(StoredSeverityText, <<"m","a","j","o","r">>)
    /\ HoldsWord(StoredSeverityText, <<"m","i","n","o","r">>)
    /\ response.severity = Str(Major)

\* C4: when the lookup ran and no sub-query of any table returned a record, the
\* response is the fallback: severity None, the fixed description and
\* interaction texts, and the caller's names trimmed, in the caller's case.
C4_Fallback ==
    (pc = "done" /\ queries # <<>> /\ \A i \in DOMAIN queries : queries[i].result # "row")
        => /\ response.status = 200
           /\ response.error = Undefined
           /\ response.severity = Str(None)
           /\ response.description = FallbackDescription
           /\ response.interaction = FallbackInteraction
           /\ FallbackDescription.s # <<>> /\ FallbackInteraction.s # <<>>
           /\ response.drug1.t = "string" /\ IsTrimOf(response.drug1.s, drug1.s)
           /\ response.drug2.t = "string" /\ IsTrimOf(response.drug2.s, drug2.s)

\* The fallback was returned for a name written with a capital and a space.
C4_Witness ==
    /\ pc = "done" /\ queries # <<>>
    /\ \A i \in DOMAIN queries : queries[i].result # "row"
    /\ drug1 = Str(<<" ", "A">>)
    /\ response.drug1 = Str(<<"A">>)

\* C5: a request that got as far as querying the store is answered with a
\* success-status DrugInteraction, a match or the fallback, whatever sub-query
\* returned an error or threw.
C5_StoreFailureNotSurfaced ==
    (pc = "done" /\ queries # <<>>)
        => /\ response.status = 200
           /\ response.error = Undefined
           /\ interaction # Null \/ IsFallback(response)

\* A request ended after one table threw and another returned error values.
C5_Witness ==
    /\ pc = "done"
    /\ \E i \in DOMAIN queries : queries[i].result = "throw"
    /\ \E i \in DOMAIN queries : queries[i].result = "error"
    /\ response.status = 200

\* Table number i can return a record for the names of the request.
TableMatches(i) ==
    LET tbl == store[tableCandidates[i]]
        like1 == <<"%">> \o normalizedDrug1 \o <<"%">>
        like2 == <<"%">> \o normalizedDrug2 \o <<"%">>
    IN  /\ tbl.mode # "throw"
        /\ \E variant \in {"A", "B"} :
             /\ ~Fails(tbl.mode, variant)
             /\ Matching(tbl.rows, variant, like1, like2)
                  \cup Matching(tbl.rows, variant, like2, like1) # {}

\* Every sub-query on table number i fails.
TableFails(i) == store[tableCandidates[i]].mode \in {"errAll", "throw"}

\* C6: when an earlier table fails on every sub-query and a later table is the
\* first to hold a matching record, the response is a match built from a row
\* of that later table.
C6_LaterSourceAfterFailure ==
    (pc = "done" /\ queries # <<>>) =>
        \A j \in DOMAIN tableCandidates :
            ( /\ TableMatches(j)
              /\ \A i \in 1..(j - 1) : ~TableMatches(i)
              /\ \E i \in 1..(j - 1) : TableFails(i) )
            => /\ response.status = 200
               /\ ~IsFallback(response)
               /\ Last(queries).table = tableCandidates[j]
               /\ Last(queries).result = "row"
               /\ \E r \in store[tableCandidates[j]].rows :
                    interaction \in {AdoptA(r), AdoptB(r)}

\* The first table threw and the match came from a later one.
C6_Witness ==
    /\ pc = "done"
    /\ queries # <<>>
    /\ queries[1].result = "throw"
    /\ Last(queries).result = "row"
    /\ Last(queries).table # queries[1].table
    /\ ~IsFallback(response) /\ response.status = 200

\* A name is missing, or empty once surrounding whitespace is removed.
MissingOrBlank(d) == d.t = "undefined" \/ (d.t = "string" /\ trim(d.s) = <<>>)

\* C7: a request with a name missing or blank after trimming gets the 400
\* "Both drug names are required" and issues no store query.
C7_BlankNamesRejected ==
    ( /\ pc = "done" /\ body = "json"
      /\ drug1.t \in {"undefined", "string"} /\ drug2.t \in {"undefined", "string"}
      /\ MissingOrBlank(drug1) \/ MissingOrBlank(drug2) )
        => response = ValidationError /\ queries = <<>>

\* The request just answered and the one before it both carried a JSON body.
TwoRequests == pc = "done" /\ body = "json" /\ prev.body = "json"

\* A row whose two name columns, of either layout, hold the lower-case texts
\* x and y in this order, letter case ignored.
RowNames(r, x, y) ==
    \/ /\ r.drug1.t = "string" /\ HoldsWord(r.drug1.s, x)
       /\ r.drug2.t = "string" /\ HoldsWord(r.drug2.s, y)
    \/ /\ r.primary_drug_name.t = "string" /\ HoldsWord(r.primary_drug_name.s, x)
       /\ r.secondary_drug_name.t = "string" /\ HoldsWord(r.secondary_drug_name.s, y)

\* The rows, with their table, that record the pair (x, y) in a table the
\* handler queries and can read.
RecordsFor(x, y) ==
    UNION {
      {<<tableCandidates[i], r>> :
         r \in {q \in store[tableCandidates[i]].rows :
                  /\ store[tableCandidates[i]].mode \in {"ok", "errA", "errB"}
                  /\ RowNames(q, x, y)}}
      : i \in DOMAIN tableCandidates}

\* The previous request carried the names of this one in the other order, the
\* names are two different non-blank texts, and the store holds a record for
\* the pair.
SwappedPairOnRecord ==
    /\ TwoRequests
    /\ prev.drug1 = drug2 /\ prev.drug2 = drug1
    /\ queries # <<>>
    /\ normalizedDrug1 # <<>> /\ normalizedDrug2 # <<>>
    /\ normalizedDrug1 # normalizedDrug2
    /\ RecordsFor(normalizedDrug1, normalizedDrug2)
         \cup RecordsFor(normalizedDrug2, normalizedDrug1) # {}

BothMatched ==
    /\ response.status = 200 /\ ~IsFallback(response)
    /\ prev.response.status = 200 /\ ~IsFallback(prev.response)

\* C8 as stated: whenever a record for the pair (X, Y) exists, the requests
\* (X, Y) and (Y, X) both end in a match and return the same severity,
\* whatever other records the store holds.
C8_SymmetryAnyStore ==
    SwappedPairOnRecord
        => BothMatched /\ response.severity = prev.response.severity

\* C8, amended: whenever a record for the pair (X, Y) exists in a table that
\* can be read, the requests (X, Y) and (Y, X) both end in a match; they return
\* the same severity when that record is the only one whose name columns hold X
\* and Y, in either order.
C8_Symmetry ==
    LET records == RecordsFor(normalizedDrug1, normalizedDrug2)
                     \cup RecordsFor(normalizedDrug2, normalizedDrug1)
    IN  SwappedPairOnRecord
            => /\ BothMatched
               /\ Cardinality(records) = 1
                    => response.severity = prev.response.severity

\* Two different names were asked in both orders against a store with exactly
\* one record for them, found by a swapped-order sub-query this time.
C8_Witness ==
    /\ SwappedPairOnRecord
    /\ Cardinality(RecordsFor(normalizedDrug1, normalizedDrug2)
                     \cup RecordsFor(normalizedDrug2, normalizedDrug1)) = 1
    /\ Last(queries).order = "second"
    /\ Last(queries).result = "row"
    /\ response.severity = prev.response.severity

\* The previous request carried exactly the names of this one.
SameRequestTwice == TwoRequests /\ prev.drug1 = drug1 /\ prev.drug2 = drug2

\* No sub-query of this request has more than one matching row to choose from.
Unambiguous ==
    LET like1 == <<"%">> \o normalizedDrug1 \o <<"%">>
        like2 == <<"%">> \o normalizedDrug2 \o <<"%">>
    IN  \A i \in DOMAIN tableCandidates, variant \in {"A", "B"} :
          /\ Cardinality(Matching(store[tableCandidates[i]].rows, variant, like1, like2)) <= 1
          /\ Cardinality(Matching(store[tableCandidates[i]].rows, variant, like2, like1)) <= 1

\* C9 as stated: two requests with identical names against the unchanged store
\* get identical responses, also when a sub-query has several matching rows.
C9_IdempotentAnyStore == SameRequestTwice => response = prev.response

\* C9, amended: two requests with identical names against the unchanged store
\* get identical responses provided no sub-query of the request has more than
\* one matching row.
C9_Idempotent ==
    (SameRequestTwice /\ (queries = <<>> \/ Unambiguous))
        => response = prev.response

\* The same names were asked twice, a table failed both times and a later table
\* gave the match.
C9_Witness ==
    /\ SameRequestTwice
    /\ Unambiguous
    /\ \E i \in DOMAIN queries : queries[i].result \in {"error", "throw"}
    /\ Last(queries).result = "row"
    /\ response = prev.response

\* C10: in every DrugInteraction response drug1 and drug2 are the caller's
\* names with surrounding whitespace removed, in the caller's order and case.
C10_EchoCallerNames ==
    Answered
        => /\ response.drug1.t = "string" /\ IsTrimOf(response.drug1.s, drug1.s)
           /\ response.drug2.t = "string" /\ IsTrimOf(response.drug2.s, drug2.s)

\* A match whose record spells both names otherwise than the caller did.
C10_Witness ==
    /\ Matched
    /\ drug1 = Str(<<" ", "A">>)
    /\ interaction.drug1 # response.drug1
    /\ interaction.drug2 # response.drug2

\* The rows a sub-query could return: rows of its table, of its layout, whose
\* name columns hold the searched names in the order the sub-query asks for
\* them.
HitRows(tableName, variant, order) ==
    LET x == IF order = "first" THEN normalizedDrug1 ELSE normalizedDrug2
        y == IF order = "first" THEN normalizedDrug2 ELSE normalizedDrug1
    IN  {r \in store[tableName].rows :
            /\ RowNames(r, x, y)
            /\ (variant = "A") <=> (r.drug1.t = "string")}

\* The rows the sub-query that ended the lookup could return.
LastHitRows == HitRows(Last(queries).table, Last(queries).variant, Last(queries).order)

\* The two names a row records, whatever its layout.
RecordName1(r) == IF r.drug1.t = "string" THEN r.drug1 ELSE r.primary_drug_name
RecordName2(r) == IF r.drug2.t = "string" THEN r.drug2 ELSE r.secondary_drug_name

\* C11 as stated: on a match the response's drug1 and drug2 are the names of
\* the matched record, in the record's order and spelling.
C11_NamesFromRecord ==
    Matched =>
        \E r \in LastHitRows :
            response.drug1 = RecordName1(r) /\ response.drug2 = RecordName2(r)

\* C11, amended: on a match the names of the matched record are adopted into
\* the lookup's interaction object only; the response's drug1 and drug2 are the
\* caller's names, trimmed, in the caller's order.
C11_RecordNamesStayInternal ==
    Matched =>
        /\ \E r \in LastHitRows :
              interaction.drug1 = RecordName1(r) /\ interaction.drug2 = RecordName2(r)
        /\ response.drug1.t = "string" /\ IsTrimOf(response.drug1.s, drug1.s)
        /\ response.drug2.t = "string" /\ IsTrimOf(response.drug2.s, drug2.s)

\* The request (b, a) matched the legacy-column record (A, Ab) by the swapped
\* sub-query and was answered with the names b and a.
C11_Witness ==
    /\ Matched
    /\ Last(queries).variant = "A" /\ Last(queries).order = "second"
    /\ interaction.drug1 = Str(<<"A">>) /\ interaction.drug2 = Str(<<"A", "b">>)
    /\ response.drug1 = Str(<<"b">>) /\ response.drug2 = Str(<<"a">>)

\* The severity class of a stored severity value, by the words its text holds.
SeverityOfText(v) ==
    LET text == IF v.t = "string" THEN v.s ELSE <<>>
    IN  IF HoldsWord(text, <<"m","a","j","o","r">>) THEN Major
        ELSE IF HoldsWord(text, <<"m","o","d","e","r","a","t","e">>) THEN Moderate
        ELSE IF HoldsWord(text, <<"m","i","n","o","r">>) THEN Minor
        ELSE None

\* C12: when the matching sub-query is a DDInter-like (Shape B) query, in-order
\* or swapped, the severity returned is the class of the matched record's
\* interaction_severity and the response has no description and no interaction.
C12_ShapeBMatch ==
    (Matched /\ Last(queries).variant = "B") =>
        /\ \E r \in LastHitRows :
              response.severity = Str(SeverityOfText(r.interaction_severity))
        /\ response.description = Undefined
        /\ response.interaction = Undefined

\* A swapped-order Shape B match on a record whose severity text is longer
\* than its class.
C12_Witness ==
    /\ Matched
    /\ Last(queries).variant = "B" /\ Last(queries).order = "second"
    /\ \A r \in LastHitRows :
          r.interaction_severity = Str(<<"M","a","j","o","r"," ","r","i","s","k">>)
    /\ response.severity = Str(Major)
    /\ response.description = Undefined

\* The request failed outside the table loop: the client could not be
\* constructed, the body could not be parsed, or a name that passed validation
\* is not a string.
UnexpectedFailure ==
    \/ ~supabaseUrlSet
    \/ body = "malformed"
    \/ /\ body = "json" /\ Truthy(drug1) /\ Truthy(drug2)
       /\ drug1.t # "string" \/ drug2.t # "string"

\* C13: a request that fails outside the table loop is answered 500 with the
\* body {error: "Internal server error"} and nothing else, without a store
\* query; and every response is a 400 validation error, a 200 DrugInteraction
\* (two names, a severity, no error member) or that 500.
C13_GenericInternalError ==
    pc = "done" =>
        /\ UnexpectedFailure =>
              /\ response = [status |-> 500,
                             error |-> Str(<<"Internal server error">>),
                             drug1 |-> Undefined, drug2 |-> Undefined,
                             severity |-> Undefined, description |-> Undefined,
                             interaction |-> Undefined]
              /\ queries = <<>>
        /\ \/ response.status = 400
              /\ response.error = Str(<<"Both drug names are required">>)
              /\ response.severity = Undefined
           \/ response.status = 200
              /\ response.error = Undefined
              /\ response.drug1.t = "string" /\ response.drug2.t = "string"
              /\ response.severity # Undefined
           \/ response.status = 500
              /\ response.error = Str(<<"Internal server error">>)
              /\ response.severity = Undefined

\* A request whose first name is a number was answered 500.
C13_Witness ==
    /\ pc = "done"
    /\ body = "json" /\ drug1 = Num /\ Truthy(drug2)
    /\ response.status = 500
    /\ response.error = Str(<<"Internal server error">>)

\* The request just answered and the one before it both passed validation with
\* text names, and each name of this one is the same name of the previous one
\* up to letter case and surrounding whitespace, one at least written otherwise.
Respelled ==
    /\ TwoRequests
    /\ Truthy(drug1) /\ Truthy(drug2) /\ Truthy(prev.drug1) /\ Truthy(prev.drug2)
    /\ drug1.t = "string" /\ drug2.t = "string"
    /\ prev.drug1.t = "string" /\ prev.drug2.t = "string"
    /\ SameName(drug1, prev.drug1) /\ SameName(drug2, prev.drug2)
    /\ drug1 # prev.drug1 \/ drug2 # prev.drug2

SameSearch ==
    /\ normalizedDrug1 = prev.normalizedDrug1
    /\ normalizedDrug2 = prev.normalizedDrug2
    /\ queries = prev.queries

SameFindings ==
    /\ response.severity = prev.response.severity
    /\ response.description = prev.response.description
    /\ response.interaction = prev.response.interaction

\* C14 as stated, for two requests that pass validation: names differing only
\* in letter case and surrounding whitespace give the same search names, the
\* same sequence of sub-queries and the same severity, description and
\* interaction, whatever the store holds.
C14_RespellingAnyStore == Respelled => SameSearch /\ SameFindings

\* C14, amended: two requests that pass validation and whose names differ only
\* in letter case and surrounding whitespace give the same search names and the
\* same sequence of sub-queries; they return the same severity, description and
\* interaction provided no sub-query has more than one matching row.
C14_Respelling ==
    Respelled => SameSearch /\ (Unambiguous => SameFindings)

\* The name asked as "a" and then as " A" (or the reverse) matched a record both
\* times.
C14_Witness ==
    /\ Respelled
    /\ drug1 # prev.drug1
    /\ Unambiguous
    /\ Last(queries).result = "row"
    /\ SameSearch /\ SameFindings

\* The four sub-queries of a table, in the order of the claim.
SubQueries ==
    << [variant |-> "A", order |-> "first"], [variant |-> "B", order |-> "first"],
       [variant |-> "A", order |-> "second"], [variant |-> "B", order |-> "second"] >>

\* The table answers selects of this layout's columns.
Readable(tableName, variant) ==
    \/ store[tableName].mode = "ok"
    \/ store[tableName].mode = "errA" /\ variant = "B"
    \/ store[tableName].mode = "errB" /\ variant = "A"

\* Sub-query number k of table number i returns a record when issued.
CanReturn(i, k) ==
    /\ Readable(tableCandidates[i], SubQueries[k].variant)
    /\ HitRows(tableCandidates[i], SubQueries[k].variant, SubQueries[k].order) # {}

\* The place of a logged sub-query in the overall order: the number of its
\* table and its number within the table.
TableNumber(q) == CHOOSE i \in DOMAIN tableCandidates : tableCandidates[i] = q.table
SubNumber(q) ==
    CHOOSE k \in DOMAIN SubQueries :
        SubQueries[k].variant = q.variant /\ SubQueries[k].order = q.order
Before(p, q) ==
    \/ TableNumber(p) < TableNumber(q)
    \/ TableNumber(p) = TableNumber(q) /\ SubNumber(p) < SubNumber(q)

\* The response carries what the row r, returned by a sub-query of the given
\* layout, records.
BuiltFrom(r, variant) ==
    IF variant = "A"
    THEN /\ response.severity = r.severity
         /\ response.description = r.description
         /\ response.interaction = r.interaction
    ELSE /\ response.severity = Str(SeverityOfText(r.interaction_severity))
         /\ response.description = Undefined
         /\ response.interaction = Undefined

\* C15: sub-queries are issued table by table in list order and, within a
\* table, in the order A in-order, B in-order, A swapped, B swapped; the
\* response is built from a record of the first sub-query in that overall
\* order that returns one, and is the fallback when none does.
C15_MatchPriority ==
    /\ \A a \in DOMAIN queries, b \in DOMAIN queries :
          a < b => Before(queries[a], queries[b])
    /\ (pc = "done" /\ queries # <<>>) =>
          LET cands == {c \in (DOMAIN tableCandidates) \X (DOMAIN SubQueries) :
                           CanReturn(c[1], c[2])}
          IN  IF cands = {}
              THEN IsFallback(response)
              ELSE LET c == CHOOSE x \in cands :
                                \A y \in cands :
                                    x[1] < y[1] \/ (x[1] = y[1] /\ x[2] <= y[2])
                   IN  /\ Last(queries) =
                            [table |-> tableCandidates[c[1]],
                             variant |-> SubQueries[c[2]].variant,
                             order |-> SubQueries[c[2]].order,
                             result |-> "row"]
                       /\ \E r \in LastHitRows : BuiltFrom(r, Last(queries).variant)

\* One table held an in-order Shape B record and a swapped Shape A record, and
\* the Shape B record was returned.
C15_Witness ==
    /\ pc = "done" /\ queries # <<>>
    /\ \E i \in DOMAIN tableCandidates :
          /\ CanReturn(i, 2) /\ CanReturn(i, 3) /\ ~CanReturn(i, 1)
          /\ Last(queries).table = tableCandidates[i]
          /\ Last(queries).variant = "B" /\ Last(queries).order = "first"
    /\ Last(queries).result = "row"
    /\ ~IsFallback(response)

\* An earlier table's record was returned although a later table held one too.
C15_WitnessTables ==
    /\ pc = "done" /\ queries # <<>>
    /\ \E i \in DOMAIN tableCandidates, j \in DOMAIN tableCandidates :
          /\ i < j
          /\ \E k \in DOMAIN SubQueries : CanReturn(i, k)
          /\ \E k \in DOMAIN SubQueries : CanReturn(j, k)
          /\ Last(queries).table = tableCandidates[i]
    /\ Last(queries).result = "row"

\* C16: a sub-query that returned a record is the last one of its request, no
\* sub-query is issued twice, and a request issues at most four sub-queries
\* for each entry of tableCandidates.
C16_ShortCircuit ==
    /\ \A i \in DOMAIN queries : queries[i].result = "row" => i = Len(queries)
    /\ \A i \in DOMAIN queries, j \in DOMAIN queries :
          ( /\ queries[i].table = queries[j].table
            /\ queries[i].variant = queries[j].variant
            /\ queries[i].order = queries[j].order ) => i = j
    /\ Len(queries) <= Len(SubQueries) * Len(tableCandidates)

\* The first sub-query of the request returned a record and the request ended
\* with it, although a later sub-query and a later table held a record too.
C16_Witness ==
    /\ pc = "done"
    /\ Len(queries) = 1 /\ queries[1].result = "row"
    /\ \E k \in 2..4 : CanReturn(1, k)
    /\ \E i \in 2..3, k \in DOMAIN SubQueries : CanReturn(i, k)

\* A request issued all four sub-queries of all three tables.
C16_WitnessAll ==
    /\ pc = "done"
    /\ Len(queries) = Len(SubQueries) * Len(tableCandidates)
    /\ IsFallback(response)

\* C17: whenever a sub-query on a table failed, by an error value or by a
\* thrown exception, and the lookup has gone on to another table, the error
\* log holds an entry for the failed table.
C17_FailuresLogged ==
    \A i \in DOMAIN queries, j \in DOMAIN queries :
        ( /\ queries[i].result \in {"error", "throw"}
          /\ i < j
          /\ queries[j].table # queries[i].table )
        => \E e \in DOMAIN errorLog : errorLog[e].table = queries[i].table

\* The same for tables whose failure came as error values only.
C17_ErrorValuesLogged ==
    \A i \in DOMAIN queries, j \in DOMAIN queries :
        ( /\ queries[i].result = "error"
          /\ i < j
          /\ queries[j].table # queries[i].table )
        => \E e \in DOMAIN errorLog : errorLog[e].table = queries[i].table

\* C18: when a sub-query on a table returned an error value and a later
\* sub-query of the same table can return a record, the lookup ends with a
\* sub-query of that table returning a record, no earlier sub-query of the
\* table having been able to, and the response is built from that record.
C18_ErrorDoesNotStopTable ==
    (pc = "done" /\ queries # <<>>) =>
        \A i \in DOMAIN queries :
            ( /\ queries[i].result = "error"
              /\ \E k \in DOMAIN SubQueries :
                    /\ SubNumber(queries[i]) < k
                    /\ CanReturn(TableNumber(queries[i]), k) )
            => /\ Last(queries).table = queries[i].table
               /\ Last(queries).result = "row"
               /\ i < Len(queries)
               /\ CanReturn(TableNumber(Last(queries)), SubNumber(Last(queries)))
               /\ \A k \in 1..(SubNumber(Last(queries)) - 1) :
                     ~CanReturn(TableNumber(Last(queries)), k)
               /\ ~IsFallback(response)
               /\ \E r \in LastHitRows : BuiltFrom(r, Last(queries).variant)

\* The legacy-column sub-queries of a table returned error values, in order
\* and swapped, and its swapped Shape B sub-query returned the record.
C18_Witness ==
    /\ pc = "done"
    /\ Len(queries) = 4
    /\ queries[1].result = "error" /\ queries[3].result = "error"
    /\ queries[2].result = "empty"
    /\ queries[4].result = "row"
    /\ ~IsFallback(response)

\* The three source identifiers of the claim, for the deployment's override.
ExpectedTables ==
    << IF tableEnv.t = "string" /\ Len(tableEnv.s) > 0
       THEN tableEnv.s ELSE <<"drug_interactions">>,
       <<"DrugInteraction">>, <<"druginteraction">> >>

\* C19: every table a request queries is one of the three expected names, the
\* tables are queried in the expected order, and a request that finds no
\* record has queried exactly these three.
C19_ThreeTables ==
    /\ \A i \in DOMAIN queries :
          \E n \in DOMAIN ExpectedTables : queries[i].table = ExpectedTables[n]
    /\ \A i \in DOMAIN queries, j \in DOMAIN queries :
          i < j => \E m \in DOMAIN ExpectedTables, n \in DOMAIN ExpectedTables :
                      /\ m <= n
                      /\ queries[i].table = ExpectedTables[m]
                      /\ queries[j].table = ExpectedTables[n]
    /\ (pc = "done" /\ queries # <<>> /\ Last(queries).result # "row") =>
          /\ Len(ExpectedTables) = 3
          /\ queries[1].table = ExpectedTables[1]
          /\ {queries[i].table : i \in DOMAIN queries}
                = {ExpectedTables[n] : n \in DOMAIN ExpectedTables}

\* With the override my_table set, a request that found nothing queried
\* my_table first, then the two fixed names, and never drug_interactions.
C19_Witness ==
    /\ pc = "done"
    /\ tableEnv = Str(<<"my_table">>)
    /\ IsFallback(response)
    /\ queries[1].table = <<"my_table">>
    /\ Last(queries).table = <<"druginteraction">>
    /\ \A i \in DOMAIN queries : queries[i].table # <<"drug_interactions">>

\* With the override set to the empty text, drug_interactions was queried
\* first.
C19_WitnessEmptyOverride ==
    /\ pc = "done"
    /\ tableEnv = Str(<<>>)
    /\ queries # <<>>
    /\ queries[1].table = <<"drug_interactions">>

\* C20: while a checkInteraction call is running loading is true, when none is
\* running loading is false, and loading, once true, becomes false again,
\* whether the call ends with data, with a response that is not ok or with a
\* rejected promise.
C20_LoadingLifecycle ==
    /\ [](inflight # <<>> => loading)
    /\ [](inflight = <<>> => ~loading)
    /\ loading ~> ~loading

\* A call has ended in the catch block and loading is false.
C20_Witness ==
    /\ inflight = <<>>
    /\ error = CheckFailed
    /\ result = Null
    /\ ~loading

\* A call has ended with data shown and loading is false.
C20_WitnessData ==
    /\ inflight = <<>>
    /\ result # Null /\ showResults
    /\ ~loading

\* C21: in every state of the page error and result are not both set, and
\* the results modal is not open while result is null.
C21_PageInvariants ==
    /\ ~(error # Null /\ result # Null)
    /\ showResults => result # Null

\* The first half alone: error and result are not both set.
C21_ErrorOrResult == ~(error # Null /\ result # Null)

\* The modal is open without a result only after a check was started with the
\* modal open: while that call runs, or after it failed.
C21_ModalWithoutResult ==
    (showResults /\ result = Null) => (loading \/ error = CheckFailed)

\* C22: at most one checkInteraction call is in flight; a call starts only
\* while loading is false, no other call is running and both inputs are
\* non-blank after trimming; and a result is shown only from the one call in
\* flight, which then is the newest, for the names that call sent.
C22_OneRequestAtATime ==
    /\ [](Len(inflight) <= 1)
    /\ [][Len(inflight') > Len(inflight) =>
            /\ ~loading
            /\ inflight = <<>>
            /\ Len(inflight') = 1
            /\ inflight'[1].drug1.s # <<>> /\ IsTrimOf(inflight'[1].drug1.s, uiDrug1)
            /\ inflight'[1].drug2.s # <<>> /\ IsTrimOf(inflight'[1].drug2.s, uiDrug2)
            /\ loading']_vars
    /\ [][(result' # result /\ result' # Null) =>
            /\ Len(inflight) = 1
            /\ inflight' = <<>>
            /\ result'.drug1 = inflight[1].drug1
            /\ result'.drug2 = inflight[1].drug2]_vars

\* A second call is running, started after the first one ended with its
\* result shown, and the button is disabled although both inputs are filled.
C22_Witness ==
    /\ Len(inflight) = 1
    /\ loading
    /\ showResults
    /\ trim(uiDrug1) # <<>> /\ trim(uiDrug2) # <<>>

====
